---- MODULE Spec2Model ----
(***************************************************************************)
(* Model of the analyzer of infra-pilot (backend/services/analyzer.py):    *)
(* the provider selector, the AI attempt with its rule-engine fallback,    *)
(* the scoring stage, the drift score and the response assembly.           *)
(*                                                                         *)
(* Python strings are tuples of one-character strings, so that lower(),    *)
(* strip() and startswith() are computed and not assumed.                  *)
(***************************************************************************)
EXTENDS Integers, Sequences, FiniteSets, TLC

VARIABLES
    environ,            \* os.environ: variable name -> value, or None when unset
    OUMI_AVAILABLE,     \* analyzer.py import flags, set once at import
    GEMINI_AVAILABLE,
    OLLAMA_AVAILABLE,
    selPc,              \* selector harness: "idle" | "selected"
    selRequested,       \* the requested_model of the last selector call
    selChoice,          \* its result (provider_name, model_name, client)
    pc,                 \* analyze_content: "idle" | "awaiting" | "done" | "raised"
    request,            \* the AnalyzeRequest being served (content, model)
    chosen,             \* what _get_provider_and_model returned to analyze_content
    ai_client,          \* the client whose analyze_infrastructure was awaited
    ai_outcome,         \* what that call did
    scorer_calls,       \* what each score_issue_with_oumi call of the run did
    trace,              \* the provider call and the rule-engine calls of the run, in order
    response,           \* the AnalyzeResponse returned
    fnPc,               \* function harness: "idle" or the function applied
    fnArg,              \* its argument
    fnRes,              \* its result
    scorer_instance,    \* oumi_trainer._scorer_instance, the module-level scorer
    runs                \* the requests being served together, by slot

selVars == <<selPc, selRequested, selChoice>>
runVars == <<pc, request, chosen, ai_client, ai_outcome, scorer_calls, trace, response>>
fnVars == <<fnPc, fnArg, fnRes>>
procVars == <<scorer_instance, runs>>
envVars == <<environ, OUMI_AVAILABLE, GEMINI_AVAILABLE, OLLAMA_AVAILABLE>>

\* Python None (also: an environment variable that is not set).
None == <<"None">>

(* ------------------------------ literals ------------------------------ *)
s_gemini == <<"g", "e", "m", "i", "n", "i">>
s_oumi == <<"o", "u", "m", "i">>
s_local == <<"l", "o", "c", "a", "l">>
s_llama3 == <<"l", "l", "a", "m", "a", "3">>
s_wizardlm2 == <<"w", "i", "z", "a", "r", "d", "l", "m", "2">>
s_qwen2_5 == <<"q", "w", "e", "n", "2", ".", "5">>
s_deepseek_r1 == <<"d", "e", "e", "p", "s", "e", "e", "k", "-", "r", "1">>
s_gemini_pro == <<"g", "e", "m", "i", "n", "i", "-", "p", "r", "o">>
s_gemini_1_5_flash == <<"g", "e", "m", "i", "n", "i", "-", "1", ".", "5", "-", "f", "l", "a", "s", "h">>
s_gemini_1_5_flash_lite == <<"g", "e", "m", "i", "n", "i", "-", "1", ".", "5", "-", "f", "l", "a", "s", "h", "-", "l", "i", "t", "e">>
s_gemini_1_5_pro == <<"g", "e", "m", "i", "n", "i", "-", "1", ".", "5", "-", "p", "r", "o">>
s_gemini_2_0_flash == <<"g", "e", "m", "i", "n", "i", "-", "2", ".", "0", "-", "f", "l", "a", "s", "h">>
s_gemini_2_0_flash_exp == <<"g", "e", "m", "i", "n", "i", "-", "2", ".", "0", "-", "f", "l", "a", "s", "h", "-", "e", "x", "p">>
s_gemini_2_0_pro_exp == <<"g", "e", "m", "i", "n", "i", "-", "2", ".", "0", "-", "p", "r", "o", "-", "e", "x", "p">>
s_oumi_rl == <<"o", "u", "m", "i", "-", "r", "l">>
s_oumi_latest == <<"o", "u", "m", "i", ":", "l", "a", "t", "e", "s", "t">>
s_llama3_latest == <<"l", "l", "a", "m", "a", "3", ":", "l", "a", "t", "e", "s", "t">>
s_ollama == <<"o", "l", "l", "a", "m", "a">>
s_rule_engine == <<"r", "u", "l", "e", "-", "e", "n", "g", "i", "n", "e">>
s_low == <<"l", "o", "w">>
s_medium == <<"m", "e", "d", "i", "u", "m">>
s_high == <<"h", "i", "g", "h">>
s_critical == <<"c", "r", "i", "t", "i", "c", "a", "l">>
s_info == <<"i", "n", "f", "o">>
s_minor == <<"m", "i", "n", "o", "r">>
s_major == <<"m", "a", "j", "o", "r">>
s_severe == <<"s", "e", "v", "e", "r", "e">>
s_warning == <<"w", "a", "r", "n", "i", "n", "g">>
s_warn == <<"w", "a", "r", "n">>
s_error == <<"e", "r", "r", "o", "r">>

(* --------------------------- str operations --------------------------- *)
UpperAlpha == <<"A", "B", "C", "D", "E", "F", "G", "H", "I", "J", "K", "L", "M",
                "N", "O", "P", "Q", "R", "S", "T", "U", "V", "W", "X", "Y", "Z">>
LowerAlpha == <<"a", "b", "c", "d", "e", "f", "g", "h", "i", "j", "k", "l", "m",
                "n", "o", "p", "q", "r", "s", "t", "u", "v", "w", "x", "y", "z">>

LowerChar(c) ==
    IF \E i \in 1..26 : UpperAlpha[i] = c
    THEN LowerAlpha[CHOOSE i \in 1..26 : UpperAlpha[i] = c]
    ELSE c

\* str.lower()
lower(s) == [i \in 1..Len(s) |-> LowerChar(s[i])]

RECURSIVE lstrip(_)
lstrip(s) == IF Len(s) > 0 /\ s[1] = " " THEN lstrip(Tail(s)) ELSE s

RECURSIVE rstrip(_)
rstrip(s) == IF Len(s) > 0 /\ s[Len(s)] = " " THEN rstrip(SubSeq(s, 1, Len(s) - 1)) ELSE s

\* str.strip()
strip(s) == rstrip(lstrip(s))

\* str.startswith(prefix)
startswith(s, prefix) == Len(s) >= Len(prefix) /\ SubSeq(s, 1, Len(prefix)) = prefix

\* Python truthiness of an Optional[str]: None and "" are falsy.
truthy(s) == s # None /\ s # <<>>

\* os.getenv(name, default); os.getenv(name) is getenv(name, None).
getenv(name, default) == IF environ[name] = None THEN default ELSE environ[name]

(* ------------------------------- clients ------------------------------ *)
NoClient == [cls |-> "NoneType", model |-> None]

\* GeminiClient.MODEL_MAP.get(key, default)
MODEL_MAP_get(key, default) ==
    IF key = s_gemini_pro THEN s_gemini_1_5_pro
    ELSE IF key = s_gemini_1_5_flash THEN s_gemini_1_5_flash
    ELSE IF key = s_gemini_1_5_flash_lite THEN s_gemini_1_5_flash_lite
    ELSE IF key = s_gemini_1_5_pro THEN s_gemini_1_5_pro
    ELSE IF key = s_gemini_2_0_flash THEN s_gemini_2_0_flash_exp
    ELSE IF key = s_gemini_2_0_pro_exp THEN s_gemini_2_0_pro_exp
    ELSE default

\* GeminiClient(model=model): self.model = MODEL_MAP.get(model.lower(), model)
GeminiClient(model) == [cls |-> "GeminiClient", model |-> MODEL_MAP_get(lower(model), model)]

\* OumiClient(): it has no model attribute
OumiClient == [cls |-> "OumiClient", model |-> None]

\* LocalOllamaClient(model=model): self.model = model or os.getenv("OLLAMA_MODEL", "llama3:latest")
LocalOllamaClient(model) ==
    [cls |-> "LocalOllamaClient",
     model |-> IF truthy(model) THEN model ELSE getenv("OLLAMA_MODEL", s_llama3_latest)]

isinstance(client, cls) == client.cls = cls

(* ----------------------------- the selector --------------------------- *)
KnownProviders == {s_gemini, s_oumi, s_local}

\* A variant of _get_ai_client that compares AI_PROVIDER and the keys as they
\* are in the environment, without strip() and lower().
get_ai_client_unnormalized ==
    LET provider == getenv("AI_PROVIDER", <<>>)
        has_gemini_key == getenv("GEMINI_API_KEY", <<>>) # <<>>
        has_oumi_key == getenv("OUMI_API_KEY", <<>>) # <<>>
    IN  IF provider = s_gemini /\ GEMINI_AVAILABLE /\ has_gemini_key
        THEN GeminiClient(getenv("GEMINI_MODEL", s_gemini_1_5_flash))
        ELSE IF provider = s_oumi /\ OUMI_AVAILABLE /\ has_oumi_key
        THEN OumiClient
        ELSE IF provider = s_local /\ OLLAMA_AVAILABLE
        THEN LocalOllamaClient(getenv("OLLAMA_MODEL", s_llama3_latest))
        ELSE IF provider \notin KnownProviders /\ GEMINI_AVAILABLE /\ has_gemini_key
        THEN GeminiClient(getenv("GEMINI_MODEL", s_gemini_1_5_flash))
        ELSE IF provider \notin KnownProviders /\ OUMI_AVAILABLE /\ has_oumi_key
        THEN OumiClient
        ELSE IF provider \notin KnownProviders /\ OLLAMA_AVAILABLE
        THEN LocalOllamaClient(getenv("OLLAMA_MODEL", s_llama3_latest))
        ELSE NoClient

\* _get_ai_client(): the client the environment configuration selects, or None
get_ai_client ==
    LET provider_raw == strip(getenv("AI_PROVIDER", <<>>))
        provider == IF provider_raw # <<>> THEN lower(provider_raw) ELSE <<>>
        gemini_key == strip(getenv("GEMINI_API_KEY", <<>>))
        oumi_key == strip(getenv("OUMI_API_KEY", <<>>))
        has_gemini_key == gemini_key # <<>>
        has_oumi_key == oumi_key # <<>>
    IN  IF provider = s_gemini /\ GEMINI_AVAILABLE /\ has_gemini_key
        THEN GeminiClient(getenv("GEMINI_MODEL", s_gemini_1_5_flash))
        ELSE IF provider = s_oumi /\ OUMI_AVAILABLE /\ has_oumi_key
        THEN OumiClient
        ELSE IF provider = s_local /\ OLLAMA_AVAILABLE
        THEN LocalOllamaClient(getenv("OLLAMA_MODEL", s_llama3_latest))
        ELSE IF provider \notin KnownProviders /\ GEMINI_AVAILABLE /\ has_gemini_key
        THEN GeminiClient(getenv("GEMINI_MODEL", s_gemini_1_5_flash))
        ELSE IF provider \notin KnownProviders /\ OUMI_AVAILABLE /\ has_oumi_key
        THEN OumiClient
        ELSE IF provider \notin KnownProviders /\ OLLAMA_AVAILABLE
        THEN LocalOllamaClient(getenv("OLLAMA_MODEL", s_llama3_latest))
        ELSE NoClient

ProviderChoice(provider_name, model_name, client) ==
    [provider_name |-> provider_name, model_name |-> model_name, client |-> client]

RuleEngineChoice == ProviderChoice(s_rule_engine, None, NoClient)

ollama_prefixes == <<s_llama3, s_wizardlm2, s_qwen2_5, s_deepseek_r1>>

gemini_models == {s_gemini_pro, s_gemini_1_5_flash, s_gemini_1_5_flash_lite,
                  s_gemini_1_5_pro, s_gemini_2_0_flash, s_gemini_2_0_pro_exp}

\* The no-model branch of _get_provider_and_model (lines 260-280).
SelectFromEnvironment ==
    LET client == get_ai_client
    IN  IF client = NoClient THEN RuleEngineChoice
        ELSE IF OLLAMA_AVAILABLE /\ isinstance(client, "LocalOllamaClient")
        THEN ProviderChoice(s_ollama, client.model, client)
        ELSE IF GEMINI_AVAILABLE /\ isinstance(client, "GeminiClient")
        THEN ProviderChoice(s_gemini, client.model, client)
        ELSE IF OUMI_AVAILABLE /\ isinstance(client, "OumiClient")
        THEN ProviderChoice(s_oumi, s_oumi_latest, client)
        ELSE RuleEngineChoice

\* The body shared by the "oumi-rl" branch (lines 321-329) and the unknown-model
\* branch (lines 333-341): the default client, gemini reported with a fixed name.
DefaultClientChoice ==
    LET client == get_ai_client
    IN  IF client # NoClient /\ OLLAMA_AVAILABLE /\ isinstance(client, "LocalOllamaClient")
        THEN ProviderChoice(s_ollama, client.model, client)
        ELSE IF client # NoClient /\ GEMINI_AVAILABLE /\ isinstance(client, "GeminiClient")
        THEN ProviderChoice(s_gemini, s_gemini_1_5_flash, client)
        ELSE IF client # NoClient /\ OUMI_AVAILABLE /\ isinstance(client, "OumiClient")
        THEN ProviderChoice(s_oumi, s_oumi_latest, client)
        ELSE RuleEngineChoice

\* A variant of SelectOllama that builds the client without the requested
\* model, so that the client falls back to OLLAMA_MODEL.
SelectOllama_default_model(requested_model) ==
    IF OLLAMA_AVAILABLE
    THEN LET client == LocalOllamaClient(None)
         IN  ProviderChoice(s_ollama, client.model, client)
    ELSE RuleEngineChoice

\* A variant of SelectOllama that keeps the requested name when it falls back
\* to the rule engine.
SelectOllama_keeping_name(requested_model) ==
    IF OLLAMA_AVAILABLE
    THEN LET client == LocalOllamaClient(requested_model)
         IN  ProviderChoice(s_ollama, client.model, client)
    ELSE ProviderChoice(s_rule_engine, requested_model, NoClient)

\* the branch of _get_provider_and_model for a local model family
SelectOllama(requested_model) ==
    IF OLLAMA_AVAILABLE
    THEN LET client == LocalOllamaClient(requested_model)
         IN  ProviderChoice(s_ollama, client.model, client)
    ELSE RuleEngineChoice

\* A variant of SelectGemini that asks for the default client when Gemini
\* cannot be used.
SelectGemini_probing_others(requested_model) ==
    IF GEMINI_AVAILABLE /\ truthy(getenv("GEMINI_API_KEY", None))
    THEN LET actual_model == IF lower(requested_model) \in gemini_models
                             THEN requested_model ELSE s_gemini_1_5_flash
         IN  ProviderChoice(s_gemini, actual_model, GeminiClient(actual_model))
    ELSE DefaultClientChoice

\* the branch of _get_provider_and_model for a Gemini model
SelectGemini(requested_model) ==
    IF GEMINI_AVAILABLE /\ truthy(getenv("GEMINI_API_KEY", None))
    THEN LET actual_model == IF lower(requested_model) \in gemini_models
                             THEN requested_model ELSE s_gemini_1_5_flash
         IN  ProviderChoice(s_gemini, actual_model, GeminiClient(actual_model))
    ELSE RuleEngineChoice

\* "any(model_lower.startswith(prefix) for prefix in ollama_prefixes)"
is_ollama_model(model_lower) ==
    \E i \in 1..Len(ollama_prefixes) : startswith(model_lower, ollama_prefixes[i])

\* "model_lower in gemini_models or model_lower.startswith('gemini')"
is_gemini_model(model_lower) ==
    model_lower \in gemini_models \/ startswith(model_lower, s_gemini)

\* _get_provider_and_model(requested_model)
get_provider_and_model(requested_model) ==
    IF ~truthy(requested_model) THEN SelectFromEnvironment
    ELSE IF is_ollama_model(lower(requested_model)) THEN SelectOllama(requested_model)
    ELSE IF is_gemini_model(lower(requested_model)) THEN SelectGemini(requested_model)
    ELSE IF lower(requested_model) = s_oumi_rl THEN DefaultClientChoice
    ELSE DefaultClientChoice

(* ------------------------- values and dicts --------------------------- *)
\* A dict key that is absent, and a value that is not a str (a JSON number).
Missing == <<"Missing">>
NonStr == <<"int">>

\* dict.get(key, default) on a field that holds Missing when the key is absent
get(value, default) == IF value = Missing THEN default ELSE value

\* "x or y": None, "" and an absent key (get gives None) are falsy
falsy(value) == value \in {Missing, None, <<>>}

IsStr(value) == value \notin {Missing, None, NonStr}

\* Scores are fixed-point numbers: 1.0 is One, 0.01 is One \div 100.
One == 10000
\* Issue.oumi_score is Optional: the value of an issue that has no score
NoScore == -1

\* A JSON number field of a dict: absent, not a number, or the number v
AbsentNum == [kind |-> "absent", v |-> 0]
NonNum == [kind |-> "nonnum", v |-> 0]
Num(v) == [kind |-> "num", v |-> v]
\* float("nan"): an instance of float that compares False with everything
NaNNum == [kind |-> "nan", v |-> 0]

\* A JSON list field of a dict: absent, not a list, or the list items
AbsentList == [kind |-> "absent", items |-> <<>>]
NonList == [kind |-> "nonlist", items |-> <<>>]
List(items) == [kind |-> "list", items |-> items]

Min(a, b) == IF a < b THEN a ELSE b
Max(a, b) == IF a > b THEN a ELSE b

Digits == <<"0", "1", "2", "3", "4", "5", "6", "7", "8", "9">>
\* f"{idx:03d}" for 0 <= idx < 1000
fmt03(idx) == <<Digits[((idx \div 100) % 10) + 1], Digits[((idx \div 10) % 10) + 1],
                Digits[(idx % 10) + 1]>>

(* ----------------------------- rule engine ---------------------------- *)
\* The content of a request is the sequence of the constructs the rules look
\* for, in the order they appear in the text; every rule scans the whole text.
RawIssue(rule_id, severity) == [rule_id |-> rule_id, severity |-> severity]

r_tf_unrestricted_sg ==
    <<"t", "f", "-", "u", "n", "r", "e", "s", "t", "r", "i", "c", "t", "e", "d", "-", "s", "g">>
r_tf_missing_tags ==
    <<"t", "f", "-", "m", "i", "s", "s", "i", "n", "g", "-", "t", "a", "g", "s">>
r_tf_hardcoded_secret ==
    <<"t", "f", "-", "h", "a", "r", "d", "c", "o", "d", "e", "d", "-", "s", "e", "c", "r", "e", "t">>
r_tf_outdated_ami ==
    <<"t", "f", "-", "o", "u", "t", "d", "a", "t", "e", "d", "-", "a", "m", "i">>
r_tf_instance_count_drift ==
    <<"t", "f", "-", "i", "n", "s", "t", "a", "n", "c", "e", "-", "c", "o", "u", "n", "t", "-", "d", "r", "i", "f", "t">>
r_k8s_latest_image ==
    <<"k", "8", "s", "-", "l", "a", "t", "e", "s", "t", "-", "i", "m", "a", "g", "e">>
r_k8s_missing_resources ==
    <<"k", "8", "s", "-", "m", "i", "s", "s", "i", "n", "g", "-", "r", "e", "s", "o", "u", "r", "c", "e", "s">>
r_k8s_missing_requests ==
    <<"k", "8", "s", "-", "m", "i", "s", "s", "i", "n", "g", "-", "r", "e", "q", "u", "e", "s", "t", "s">>
r_k8s_privileged_container ==
    <<"k", "8", "s", "-", "p", "r", "i", "v", "i", "l", "e", "g", "e", "d", "-", "c", "o", "n", "t", "a", "i", "n", "e", "r">>
r_k8s_hostpath_volume ==
    <<"k", "8", "s", "-", "h", "o", "s", "t", "p", "a", "t", "h", "-", "v", "o", "l", "u", "m", "e">>
r_k8s_replica_zero ==
    <<"k", "8", "s", "-", "r", "e", "p", "l", "i", "c", "a", "-", "z", "e", "r", "o">>
r_k8s_replica_high ==
    <<"k", "8", "s", "-", "r", "e", "p", "l", "i", "c", "a", "-", "h", "i", "g", "h">>

RECURSIVE Hits(_, _)
\* The issues one rule emits: issueOf[c] for every construct c of the text the
\* rule matches, in text order.
Hits(constructs, issueOf) ==
    IF constructs = <<>> THEN <<>>
    ELSE (IF Head(constructs) \in DOMAIN issueOf THEN <<issueOf[Head(constructs)]>> ELSE <<>>)
         \o Hits(Tail(constructs), issueOf)

Returned(value) == [raised |-> FALSE, value |-> value]
Raised == [raised |-> TRUE, value |-> <<>>]

check_unrestricted_security_group(content) ==
    Hits(content.constructs, [sg_open_cidr |-> RawIssue(r_tf_unrestricted_sg, s_high)])
check_missing_tags(content) ==
    Hits(content.constructs, [untagged_resource |-> RawIssue(r_tf_missing_tags, s_medium)])
check_hardcoded_secrets(content) ==
    Hits(content.constructs, [hardcoded_secret |-> RawIssue(r_tf_hardcoded_secret, s_critical)])
\* only the first AMI id of the text is flagged, once
check_outdated_ami(content) ==
    LET all == Hits(content.constructs, [hardcoded_ami |-> RawIssue(r_tf_outdated_ami, s_medium)])
    IN  IF all = <<>> THEN <<>> ELSE <<Head(all)>>
check_instance_count_drift(content) ==
    Hits(content.constructs, [asg_at_boundary |-> RawIssue(r_tf_instance_count_drift, s_low)])

analyze_terraform(content) ==
    Returned(check_unrestricted_security_group(content) \o check_missing_tags(content)
             \o check_hardcoded_secrets(content) \o check_outdated_ami(content)
             \o check_instance_count_drift(content))

\* A parsed document whose metadata is null: metadata.get raises AttributeError
\* in the two rules that walk the parsed YAML.
HasNullMetadata(content) ==
    \E i \in 1..Len(content.constructs) : content.constructs[i] = "null_metadata_doc"

check_latest_image_tag(content) ==
    Hits(content.constructs, [image_latest |-> RawIssue(r_k8s_latest_image, s_medium)])
check_missing_resource_limits(content) ==
    IF HasNullMetadata(content) THEN Raised
    ELSE Returned(Hits(content.constructs,
                       [container_no_resources |-> RawIssue(r_k8s_missing_resources, s_high),
                        container_no_requests |-> RawIssue(r_k8s_missing_requests, s_medium)]))
check_privileged_container(content) ==
    Hits(content.constructs, [privileged_true |-> RawIssue(r_k8s_privileged_container, s_critical)])
check_hostpath_volumes(content) ==
    IF HasNullMetadata(content) THEN Raised
    ELSE Returned(Hits(content.constructs,
                       [hostpath_volume |-> RawIssue(r_k8s_hostpath_volume, s_high)]))
check_replica_mismatch(content) ==
    Hits(content.constructs, [replicas_zero |-> RawIssue(r_k8s_replica_zero, s_low),
                              replicas_many |-> RawIssue(r_k8s_replica_high, s_medium)])

analyze_kubernetes(content) ==
    LET limits == check_missing_resource_limits(content)
        hostpath == check_hostpath_volumes(content)
    IN  IF limits.raised \/ hostpath.raised THEN Raised
        ELSE Returned(check_latest_image_tag(content) \o limits.value
                      \o check_privileged_container(content) \o hostpath.value
                      \o check_replica_mismatch(content))

\* _run_rule_engine(content, file_type)
run_rule_engine(content) ==
    IF content.file_type = "terraform" THEN analyze_terraform(content)
    ELSE IF content.file_type = "kubernetes" THEN analyze_kubernetes(content)
    ELSE Returned(<<>>)

(* ------------------------- issues and timeline ------------------------ *)
\* An issue dict of the pipeline; type is "dict", or "str" for a list item
\* that is no dict. The text fields (title, description, resource,
\* fix_suggestion) are defaulted like id and carry no decision.
IssueDict(id, severity, final_severity) ==
    [type |-> "dict", id |-> id, severity |-> severity,
     final_severity |-> final_severity, oumi_score |-> NoScore]

\* _format_rule_engine_issues(raw_issues)
format_rule_engine_issues(raw_issues) ==
    [idx \in 1..Len(raw_issues) |->
        IssueDict(IF falsy(raw_issues[idx].rule_id)
                  THEN <<"r", "u", "l", "e", "-">> \o fmt03(idx)
                  ELSE raw_issues[idx].rule_id,
                  get(raw_issues[idx].severity, s_medium),
                  Missing)]

\* severity_order.get(severity, 2) of _generate_timeline_skeleton
severity_order(severity) ==
    IF severity = s_critical THEN 4
    ELSE IF severity = s_high THEN 3
    ELSE IF severity = s_medium THEN 2
    ELSE IF severity = s_low THEN 1
    ELSE 2

\* days_per_severity.get(severity, 10)
days_per_severity(severity) ==
    IF severity = s_critical THEN 2
    ELSE IF severity = s_high THEN 5
    ELSE IF severity = s_medium THEN 10
    ELSE IF severity = s_low THEN 15
    ELSE 10

\* _map_severity_to_timeline(severity)
map_severity_to_timeline(severity) ==
    IF severity = s_low THEN s_low
    ELSE IF severity = s_medium THEN s_medium
    ELSE IF severity = s_high THEN s_high
    ELSE IF severity = s_critical THEN s_high
    ELSE s_medium

RECURSIVE WithRank(_, _)
WithRank(issues, rank) ==
    IF issues = <<>> THEN <<>>
    ELSE (IF severity_order(get(Head(issues).severity, s_medium)) = rank
          THEN <<Head(issues)>> ELSE <<>>) \o WithRank(Tail(issues), rank)

\* sorted(issues, key=severity_order...)[::-1]: ascending, then reversed, which
\* also reverses the issues of one rank
sorted_issues_by_reversal(issues) ==
    LET ascending == WithRank(issues, 1) \o WithRank(issues, 2)
                        \o WithRank(issues, 3) \o WithRank(issues, 4)
    IN  [i \in 1..Len(ascending) |-> ascending[Len(ascending) + 1 - i]]

\* sorted(issues, key=severity_order..., reverse=True): the sort is stable, so
\* issues of one rank keep their order
sorted_issues(issues) ==
    WithRank(issues, 4) \o WithRank(issues, 3) \o WithRank(issues, 2) \o WithRank(issues, 1)

TimelineDict(day, severity) == [day |-> Num(day), severity |-> severity]

RECURSIVE SkeletonEvents_reset(_, _)
SkeletonEvents_reset(issues, current_day) ==
    IF issues = <<>> THEN <<>>
    ELSE LET severity == get(Head(issues).severity, s_medium)
             day == days_per_severity(severity)
         IN  <<TimelineDict(day, map_severity_to_timeline(severity))>>
             \o SkeletonEvents_reset(Tail(issues), day)

RECURSIVE SkeletonEvents(_, _)
\* the loop of _generate_timeline_skeleton: current_day accumulates
SkeletonEvents(issues, current_day) ==
    IF issues = <<>> THEN <<>>
    ELSE LET severity == get(Head(issues).severity, s_medium)
             day == current_day + days_per_severity(severity)
         IN  <<TimelineDict(day, map_severity_to_timeline(severity))>>
             \o SkeletonEvents(Tail(issues), day)

\* _generate_timeline_skeleton(issues)
generate_timeline_skeleton(issues) ==
    IF issues = <<>> THEN <<TimelineDict(0, s_info)>>
    ELSE LET sorted == sorted_issues(issues)
             top == SubSeq(sorted, 1, Min(5, Len(sorted)))
         IN  <<TimelineDict(0, s_info)>> \o SkeletonEvents(top, 0)

normalize_severity_default_info(severity) ==
    LET severity_lower == lower(severity)
    IN  IF severity_lower \in {s_low, s_medium, s_high, s_critical} THEN severity_lower
        ELSE IF severity_lower \in {s_info, s_minor} THEN s_low
        ELSE IF severity_lower \in {s_major, s_severe} THEN s_high
        ELSE s_info

\* _normalize_severity(severity), for a str
normalize_severity(severity) ==
    LET severity_lower == lower(severity)
    IN  IF severity_lower \in {s_low, s_medium, s_high, s_critical} THEN severity_lower
        ELSE IF severity_lower \in {s_info, s_minor} THEN s_low
        ELSE IF severity_lower \in {s_major, s_severe} THEN s_high
        ELSE s_medium

normalize_timeline_severity_default_medium(severity) ==
    LET severity_lower == lower(severity)
    IN  IF severity_lower \in {s_info, s_low, s_medium, s_high} THEN severity_lower
        ELSE IF severity_lower \in {s_warning, s_warn} THEN s_medium
        ELSE IF severity_lower \in {s_critical, s_error} THEN s_high
        ELSE s_medium

\* _normalize_timeline_severity(severity), for a str
normalize_timeline_severity(severity) ==
    LET severity_lower == lower(severity)
    IN  IF severity_lower \in {s_info, s_low, s_medium, s_high} THEN severity_lower
        ELSE IF severity_lower \in {s_warning, s_warn} THEN s_medium
        ELSE IF severity_lower \in {s_critical, s_error} THEN s_high
        ELSE s_info

(* ------------------------------- scoring ------------------------------ *)
\* The outcome of one score_issue_with_oumi call: a score, or an exception.
ScorerRaises == -2

\* severity_scores.get(severity, 0.5) of _add_oumi_scores
severity_scores(severity) ==
    IF severity = s_low THEN 2500
    ELSE IF severity = s_medium THEN 5000
    ELSE IF severity = s_high THEN 7500
    ELSE IF severity = s_critical THEN 9500
    ELSE 5000

\* _add_oumi_scores raises when an item is no dict (the handler's issue.get),
\* or when a scorer call fails on an issue whose severity is no str (.lower()).
AddScoresRaises(issues, scorer) ==
    \E i \in 1..Len(issues) :
        \/ issues[i].type # "dict"
        \/ scorer[i] = ScorerRaises /\ ~IsStr(get(issues[i].severity, s_medium))

add_oumi_scores_sorted(issues, scorer) ==
    LET sorted == sorted_issues(issues)
    IN  [i \in 1..Len(sorted) |->
            [sorted[i] EXCEPT !.oumi_score =
                IF scorer[i] # ScorerRaises THEN scorer[i]
                ELSE severity_scores(lower(get(sorted[i].severity, s_medium)))]]

\* A variant of _add_oumi_scores that leaves an issue without score when its
\* scorer call fails.
add_oumi_scores_unscored_on_failure(issues, scorer) ==
    [i \in 1..Len(issues) |->
        [issues[i] EXCEPT !.oumi_score =
            IF scorer[i] # ScorerRaises THEN scorer[i] ELSE NoScore]]

\* _add_oumi_scores(issues); scorer[i] is the outcome of the i-th scorer call
add_oumi_scores(issues, scorer) ==
    [i \in 1..Len(issues) |->
        [issues[i] EXCEPT !.oumi_score =
            IF scorer[i] # ScorerRaises THEN scorer[i]
            ELSE severity_scores(lower(get(issues[i].severity, s_medium)))]]

(* ----------------------------- drift score ---------------------------- *)
\* min((k * 0.05 / 10.0) ** 0.7, 1.0) in units of 1/One, for k = 0..200: the
\* curve of _calculate_drift_score on total weights that are multiples of 0.05.
Pow07 == <<
    0, 245, 398, 529, 647, 756, 859, 957, 1051, 1141,
    1228, 1313, 1395, 1476, 1554, 1631, 1707, 1781, 1853, 1925,
    1995, 2065, 2133, 2200, 2267, 2333, 2398, 2462, 2525, 2588,
    2650, 2712, 2773, 2833, 2893, 2952, 3011, 3069, 3127, 3184,
    3241, 3298, 3354, 3410, 3465, 3520, 3574, 3629, 3683, 3736,
    3789, 3842, 3895, 3947, 3999, 4051, 4102, 4153, 4204, 4255,
    4305, 4355, 4405, 4455, 4504, 4553, 4602, 4651, 4699, 4748,
    4796, 4844, 4891, 4939, 4986, 5033, 5080, 5127, 5173, 5219,
    5266, 5312, 5357, 5403, 5448, 5494, 5539, 5584, 5629, 5674,
    5718, 5762, 5807, 5851, 5895, 5939, 5982, 6026, 6069, 6113,
    6156, 6199, 6242, 6284, 6327, 6370, 6412, 6454, 6496, 6538,
    6580, 6622, 6664, 6706, 6747, 6788, 6830, 6871, 6912, 6953,
    6994, 7034, 7075, 7116, 7156, 7196, 7237, 7277, 7317, 7357,
    7397, 7437, 7476, 7516, 7555, 7595, 7634, 7673, 7712, 7752,
    7791, 7829, 7868, 7907, 7946, 7984, 8023, 8061, 8100, 8138,
    8176, 8214, 8252, 8290, 8328, 8366, 8404, 8441, 8479, 8516,
    8554, 8591, 8629, 8666, 8703, 8740, 8777, 8814, 8851, 8888,
    8925, 8961, 8998, 9035, 9071, 9108, 9144, 9180, 9217, 9253,
    9289, 9325, 9361, 9397, 9433, 9469, 9505, 9540, 9576, 9612,
    9647, 9683, 9718, 9754, 9789, 9824, 9860, 9895, 9930, 9965,
    10000>>

CountSeverity(issues, severity) ==
    Cardinality({i \in 1..Len(issues) : lower(get(issues[i].severity, <<>>)) = severity})

\* severity_weights.get(severity, 0.4)
severity_weights(severity) ==
    IF severity = s_critical THEN 10000
    ELSE IF severity = s_high THEN 7000
    ELSE IF severity = s_medium THEN 4000
    ELSE IF severity = s_low THEN 2000
    ELSE 4000

RECURSIVE TotalWeight(_)
TotalWeight(issues) ==
    IF issues = <<>> THEN 0
    ELSE (IF Head(issues).oumi_score # NoScore THEN Head(issues).oumi_score
          ELSE severity_weights(lower(get(Head(issues).severity, s_medium))))
         + TotalWeight(Tail(issues))

\* round(x, 2)
Round2(x) == ((x + 50) \div 100) * 100

calculate_drift_score_without_critical_rule(issues) ==
    IF issues = <<>> THEN 0
    ELSE LET raw_score == Min(TotalWeight(issues) \div 10, One)
             curved == Pow07[(raw_score \div 50) + 1]
         IN  Round2(IF /\ CountSeverity(issues, s_medium) >= 5
                       /\ CountSeverity(issues, s_critical) = 0
                       /\ CountSeverity(issues, s_high) = 0
                    THEN Max(4000, Min(6000, curved)) ELSE curved)

calculate_drift_score_without_medium_clamp(issues) ==
    IF issues = <<>> THEN 0
    ELSE LET critical_count == CountSeverity(issues, s_critical)
             raw_score == Min(TotalWeight(issues) \div 10, One)
         IN  IF critical_count > 3 THEN Min(9000 + Min(critical_count - 3, 7) * 100, One)
             ELSE Round2(Pow07[(raw_score \div 50) + 1])

\* _calculate_drift_score(issues)
calculate_drift_score(issues) ==
    IF issues = <<>> THEN 0
    ELSE
    LET critical_count == CountSeverity(issues, s_critical)
        high_count == CountSeverity(issues, s_high)
        medium_count == CountSeverity(issues, s_medium)
        total_weight == TotalWeight(issues)
        raw_score == Min(total_weight \div 10, One)
        curved == Pow07[(raw_score \div 50) + 1]
        drift_score == IF medium_count >= 5 /\ critical_count = 0 /\ high_count = 0
                       THEN Max(4000, Min(6000, curved)) ELSE curved
    IN  IF critical_count > 3
        THEN Min(9000 + Min(critical_count - 3, 7) * 100, One)
        ELSE Round2(drift_score)

(* --------------------------- AI analysis ------------------------------ *)
\* What client.analyze_infrastructure does: raises, returns None, or returns a
\* dict whose three fields are arbitrary JSON.
ProviderRaises == [kind |-> "raise", issues |-> AbsentList, timeline |-> AbsentList,
                   drift_score |-> AbsentNum]
ProviderNone == [kind |-> "none", issues |-> AbsentList, timeline |-> AbsentList,
                 drift_score |-> AbsentNum]
ProviderDict(issues, timeline, drift_score) ==
    [kind |-> "dict", issues |-> issues, timeline |-> timeline, drift_score |-> drift_score]
NotCalled == [kind |-> "not-called", issues |-> AbsentList, timeline |-> AbsentList,
              drift_score |-> AbsentNum]

\* the score normalisation of _analyze_with_ai and analyze_content: a value
\* above 1.0 is taken as a percentage, then the value is clamped to [0, 1]
ClampUnit_unclamped(x) == x

\* max(0.0, min(1.0, x)), the clamp of both normalisations and of the final score
ClampUnit(x) == Max(0, Min(One, x))

NormalizeScore(v) ==
    LET scaled == IF v > One THEN Min(v \div 100, One) ELSE v
    IN  ClampUnit(scaled)

\* The same statements on float("nan"): "score > 1.0" is False, min(1.0, nan)
\* keeps its first argument because "nan < 1.0" is False, and max(0.0, 1.0)
\* is 1.0.
NormalizeNaN == One

AiResult(issues, timeline, drift_score) ==
    [isNone |-> FALSE, issues |-> issues, timeline |-> timeline, drift_score |-> drift_score]
AiNone == [isNone |-> TRUE, issues |-> <<>>, timeline |-> <<>>, drift_score |-> 0]

\* "if client is None: client = _get_ai_client()" of _analyze_with_ai
EffectiveClient(client) == IF client = NoClient THEN get_ai_client ELSE client

\* _analyze_with_ai, from the client it ends up with and what that client did
analyze_with_ai(client, outcome) ==
    IF client = NoClient THEN AiNone
    ELSE IF outcome.kind # "dict" THEN AiNone
    ELSE IF outcome.issues.kind = "absent" /\ outcome.timeline.kind = "absent"
            /\ outcome.drift_score.kind = "absent" THEN AiNone
    ELSE AiResult(IF outcome.issues.kind = "list" THEN outcome.issues.items ELSE <<>>,
                  IF outcome.timeline.kind = "list" THEN outcome.timeline.items ELSE <<>>,
                  IF outcome.drift_score.kind = "num"
                  THEN NormalizeScore(outcome.drift_score.v)
                  ELSE IF outcome.drift_score.kind = "nan" THEN NormalizeNaN ELSE 0)

(* --------------------------- analyze_content -------------------------- *)
IssueModel(id, severity, oumi_score) ==
    [id |-> id, severity |-> severity, oumi_score |-> oumi_score]
TimelineEvent(day, severity) == [day |-> day, severity |-> severity]
AnalyzeResponse(drift_score, timeline, issues, provider, model) ==
    [drift_score |-> drift_score, timeline |-> timeline, issues |-> issues,
     provider |-> provider, model |-> model]
NoResponse == AnalyzeResponse(0, <<>>, <<>>, None, None)

\* issue.get("severity") or issue.get("final_severity", "medium")
SeverityOf(issue) ==
    IF falsy(issue.severity) THEN get(issue.final_severity, s_medium) ELSE issue.severity

\* The response models reject a day that is no integer >= 0; a severity that
\* is no str fails in the normalizers' .lower().
AssemblyRaises(timeline, issues) ==
    \/ \E i \in 1..Len(timeline) :
          \/ timeline[i].day.kind = "nonnum"
          \/ timeline[i].day.kind = "num" /\ timeline[i].day.v < 0
          \/ ~IsStr(get(timeline[i].severity, s_info))
    \/ \E i \in 1..Len(issues) : ~IsStr(SeverityOf(issues[i]))

timeline_events(timeline) ==
    [i \in 1..Len(timeline) |->
        TimelineEvent(IF timeline[i].day.kind = "absent" THEN 0 ELSE timeline[i].day.v,
                      normalize_timeline_severity(get(timeline[i].severity, s_info)))]

issues_list(issues) ==
    [idx \in 1..Len(issues) |->
        IssueModel(IF falsy(issues[idx].id)
                   THEN <<"i", "s", "s", "u", "e", "-">> \o fmt03(idx) ELSE issues[idx].id,
                   normalize_severity(SeverityOf(issues[idx])),
                   issues[idx].oumi_score)]

\* analyze_content from the return of _analyze_with_ai on: choice is what the
\* selector returned, ai_result what _analyze_with_ai returned, scorer the
\* outcomes of the scorer calls. Gives a response, or an escaping exception.
finish_analysis(content, choice, ai_result, scorer) ==
    LET use_ai == ~ai_result.isNone /\ Len(ai_result.issues) > 0
        raw_issues == run_rule_engine(content)
        issues == IF use_ai THEN ai_result.issues
                  ELSE format_rule_engine_issues(raw_issues.value)
        timeline == IF use_ai THEN ai_result.timeline
                    ELSE generate_timeline_skeleton(issues)
        to_rule_engine == ~use_ai /\ (falsy(choice.provider_name)
                                      \/ choice.provider_name = s_rule_engine)
        provider == IF to_rule_engine THEN s_rule_engine ELSE choice.provider_name
        model == IF to_rule_engine THEN None ELSE choice.model_name
        scored == add_oumi_scores(issues, scorer)
        drift_score == IF use_ai THEN NormalizeScore(ai_result.drift_score)
                       ELSE calculate_drift_score(scored)
    IN  IF ~use_ai /\ raw_issues.raised THEN Raised
        ELSE IF AddScoresRaises(issues, scorer) THEN Raised
        ELSE IF AssemblyRaises(timeline, scored) THEN Raised
        ELSE Returned(AnalyzeResponse(ClampUnit(drift_score),
                                      timeline_events(timeline), issues_list(scored),
                                      provider, model))

\* the _run_rule_engine calls of analyze_content: none when the AI result is
\* adopted, one in the else branch, and one more in the except branch when
\* the first raised inside the try
RuleEngineTrace(content, ai_result) ==
    IF ~ai_result.isNone /\ Len(ai_result.issues) > 0 THEN <<>>
    ELSE IF run_rule_engine(content).raised THEN <<"rules", "rules">>
    ELSE <<"rules">>

OumiRLScorer(serial) == [cls |-> "OumiRLScorer", serial |-> serial]

get_oumi_scorer_fresh(instance) ==
    OumiRLScorer(IF instance.cls = "NoneType" THEN 1 ELSE 3 - instance.serial)

\* get_oumi_scorer(): the module-level instance, created by the first call
get_oumi_scorer(instance) ==
    IF instance.cls = "NoneType" THEN OumiRLScorer(1) ELSE instance

\* _scorer_instance after the scorer calls of one run (each call goes through
\* get_oumi_scorer)
ScorerAfter(instance, scorer) ==
    IF Len(scorer) > 0 THEN get_oumi_scorer(instance) ELSE instance

\* the length of the issue list the scorer is called on
ScoredLen(content, ai_result) ==
    IF ~ai_result.isNone /\ Len(ai_result.issues) > 0 THEN Len(ai_result.issues)
    ELSE Len(run_rule_engine(content).value)

(* ------------------------- inputs of the model ------------------------ *)
s_azure == <<"a", "z", "u", "r", "e">>
s_OUMI_padded == <<" ", "O", "U", "M", "I">>
s_key == <<"k">>
s_blank == <<" ">>
s_Llama3_8B == <<"L", "l", "a", "m", "a", "3", ":", "8", "B">>
s_qwen2_5_7b == <<"q", "w", "e", "n", "2", ".", "5", ":", "7", "b">>
s_Gemini_Pro == <<"G", "e", "m", "i", "n", "i", "-", "P", "r", "o">>
s_gemini_exp == <<"g", "e", "m", "i", "n", "i", "-", "e", "x", "p">>
s_OUMI_RL == <<"O", "U", "M", "I", "-", "R", "L">>
s_gpt_4 == <<"g", "p", "t", "-", "4">>

\* Values of AI_PROVIDER: unset, the three providers, one in another case with
\* surrounding blanks, and one that names no provider.
ProviderValues == {None, s_gemini, s_oumi, s_local, s_OUMI_padded, s_azure}
\* Values of a credential: unset, empty, blank, a key.
KeyValues == {None, <<>>, s_blank, s_key}
GeminiModelValues == {None, s_gemini_pro}
OllamaModelValues == {None, s_qwen2_5_7b}

Environments ==
    [AI_PROVIDER : ProviderValues, GEMINI_API_KEY : KeyValues, OUMI_API_KEY : KeyValues,
     GEMINI_MODEL : GeminiModelValues, OLLAMA_MODEL : OllamaModelValues]

\* Values of the request's model field.
RequestedModels ==
    {None, <<>>, s_Llama3_8B, s_qwen2_5_7b, s_gemini_pro, s_Gemini_Pro, s_gemini_exp,
     s_oumi_rl, s_OUMI_RL, s_gpt_4}

(* ------------------- specification of the selector -------------------- *)
NoRequest == [content |-> [file_type |-> "terraform", constructs |-> <<>>], model |-> None]

RunIdle ==
    /\ pc = "idle"
    /\ request = NoRequest
    /\ chosen = RuleEngineChoice
    /\ ai_client = NoClient
    /\ ai_outcome = NotCalled
    /\ scorer_calls = <<>>
    /\ trace = <<>>
    /\ response = NoResponse

FnIdle ==
    /\ fnPc = "idle"
    /\ fnArg = <<>>
    /\ fnRes = <<>>

\* the most requests served together
MaxRuns == 2

Slots == 1..MaxRuns

IdleRun ==
    [pc |-> "idle", request |-> NoRequest, chosen |-> RuleEngineChoice,
     ai_client |-> NoClient, ai_outcome |-> NotCalled, scorer_calls |-> <<>>,
     trace |-> <<>>, response |-> NoResponse]

\* _scorer_instance = None
NoScorer == [cls |-> "NoneType", serial |-> 0]

\* the process has served no request yet
ProcIdle ==
    /\ scorer_instance = NoScorer
    /\ runs = [slot \in Slots |-> IdleRun]

SelIdle ==
    /\ selPc = "idle"
    /\ selRequested = None
    /\ selChoice = RuleEngineChoice

SelInit ==
    /\ environ \in Environments
    /\ OUMI_AVAILABLE \in BOOLEAN
    /\ GEMINI_AVAILABLE \in BOOLEAN
    /\ OLLAMA_AVAILABLE \in BOOLEAN
    /\ SelIdle
    /\ RunIdle
    /\ FnIdle
    /\ ProcIdle

\* One call of _get_provider_and_model(requested_model).
Select(requested_model) ==
    /\ selPc' = "selected"
    /\ selRequested' = requested_model
    /\ selChoice' = get_provider_and_model(requested_model)
    /\ UNCHANGED <<envVars, runVars, fnVars, procVars>>

SelNext == \E requested_model \in RequestedModels : Select(requested_model)

vars == <<envVars, selVars, runVars, fnVars, procVars>>

SpecSel == SelInit /\ [][SelNext]_vars

(* ------------------- specification of analyze_content ----------------- *)
\* the longest text of a request, in constructs
MaxConstructs == 2

SeqsUpTo(S, n) == UNION {[1..k -> S] : k \in 0..n}

TerraformConstructs == {"hardcoded_secret", "untagged_resource", "hardcoded_ami"}
KubernetesConstructs == {"privileged_true", "container_no_requests", "null_metadata_doc"}

Contents ==
    {[file_type |-> "terraform", constructs |-> c] :
        c \in SeqsUpTo(TerraformConstructs, MaxConstructs)}
    \cup {[file_type |-> "kubernetes", constructs |-> c] :
        c \in SeqsUpTo(KubernetesConstructs, MaxConstructs)}

RunModels == {None, s_Llama3_8B, s_gemini_pro, s_oumi_rl}

RunEnvironments ==
    [AI_PROVIDER : {None, s_gemini}, GEMINI_API_KEY : {None, s_key},
     OUMI_API_KEY : {None, s_key}, GEMINI_MODEL : {None}, OLLAMA_MODEL : {None}]

s_CRITICAL == <<"C", "R", "I", "T", "I", "C", "A", "L">>
s_sec_1 == <<"s", "e", "c", "-", "1">>
s_unknown == <<"u", "n", "k", "n", "o", "w", "n">>

\* Issues an AI provider answers with.
ai_issue_high == IssueDict(s_sec_1, s_high, Missing)
ai_issue_upper == IssueDict(Missing, s_CRITICAL, Missing)
ai_issue_final == IssueDict(<<>>, Missing, s_severe)
ai_issue_null_severity == IssueDict(Missing, None, None)
ai_issue_null_with_final == IssueDict(Missing, None, s_high)
ai_issue_number_severity == IssueDict(Missing, NonStr, Missing)
ai_issue_minor == IssueDict(Missing, s_minor, Missing)
ai_issue_unknown == IssueDict(Missing, s_unknown, Missing)
ai_issue_string == [type |-> "str", id |-> Missing, severity |-> Missing,
                    final_severity |-> Missing, oumi_score |-> NoScore]

AiIssueLists ==
    {AbsentList, NonList, List(<<>>), List(<<ai_issue_high>>),
     List(<<ai_issue_upper, ai_issue_final>>), List(<<ai_issue_null_severity>>),
     List(<<ai_issue_null_with_final>>), List(<<ai_issue_minor, ai_issue_unknown>>),
     List(<<ai_issue_number_severity>>), List(<<ai_issue_string>>)}

AiTimelines ==
    {AbsentList, NonList, List(<<>>),
     List(<<[day |-> Num(3), severity |-> s_warning]>>),
     List(<<[day |-> Num(4), severity |-> s_error], [day |-> Num(9), severity |-> s_unknown]>>),
     List(<<[day |-> AbsentNum, severity |-> Missing]>>),
     List(<<[day |-> Num(-1), severity |-> s_low]>>),
     List(<<[day |-> NonNum, severity |-> s_low]>>),
     List(<<[day |-> Num(7), severity |-> None]>>)}

\* drift scores: absent, no number, -5, 0.5, 85, 250 and NaN
AiScores ==
    {AbsentNum, NonNum, Num(-50000), Num(5000), Num(850000), Num(2500000), NaNNum}

ProviderOutcomes ==
    {ProviderRaises, ProviderNone}
    \cup {ProviderDict(i, List(<<[day |-> Num(3), severity |-> s_warning]>>), Num(850000)) :
            i \in AiIssueLists}
    \cup {ProviderDict(List(<<ai_issue_high>>), tl, Num(850000)) : tl \in AiTimelines}
    \cup {ProviderDict(List(<<ai_issue_high>>), AbsentList, s) : s \in AiScores}
    \cup {ProviderDict(AbsentList, AbsentList, AbsentNum)}

\* what one score_issue_with_oumi call does: raises, or a score in [0, 1]
ScorerOutcomes == {ScorerRaises, 500}

Init ==
    /\ environ \in RunEnvironments
    /\ OUMI_AVAILABLE = TRUE
    /\ GEMINI_AVAILABLE = TRUE
    /\ OLLAMA_AVAILABLE \in BOOLEAN
    /\ SelIdle
    /\ RunIdle
    /\ FnIdle
    /\ ProcIdle

\* analyze_content from the return of _analyze_with_ai to its own return
Finish(ai_result, scorer) ==
    LET result == finish_analysis(request'.content, chosen', ai_result, scorer)
    IN  /\ pc' = IF result.raised THEN "raised" ELSE "done"
        /\ scorer_calls' = scorer
        /\ trace' = trace \o RuleEngineTrace(request'.content, ai_result)
        /\ scorer_instance' = ScorerAfter(scorer_instance, scorer)
        /\ response' = IF result.raised THEN NoResponse ELSE result.value

\* analyze_content is called and no client is left to ask:
\* _analyze_with_ai returns None at once and the call runs to its end.
AnalyzeWithoutClient(content, model) ==
    /\ pc = "idle"
    /\ request' = [content |-> content, model |-> model]
    /\ chosen' = get_provider_and_model(model)
    /\ EffectiveClient(chosen'.client) = NoClient
    /\ ai_client' = NoClient
    /\ ai_outcome' = NotCalled
    /\ \E scorer \in [1..ScoredLen(content, AiNone) -> ScorerOutcomes] :
          Finish(AiNone, scorer)
    /\ UNCHANGED <<envVars, selVars, fnVars, runs>>

\* analyze_content is called and awaits client.analyze_infrastructure
AnalyzeWithClient(content, model) ==
    /\ pc = "idle"
    /\ request' = [content |-> content, model |-> model]
    /\ chosen' = get_provider_and_model(model)
    /\ EffectiveClient(chosen'.client) # NoClient
    /\ ai_client' = EffectiveClient(chosen'.client)
    /\ pc' = "awaiting"
    /\ trace' = <<"provider">>
    /\ UNCHANGED <<ai_outcome, scorer_calls, response, envVars, selVars, fnVars, procVars>>

\* the awaited call ends and analyze_content runs to its end
ProviderReturns(outcome) ==
    /\ pc = "awaiting"
    /\ ai_outcome' = outcome
    /\ UNCHANGED <<request, chosen, ai_client, envVars, selVars, fnVars, runs>>
    /\ LET ai_result == analyze_with_ai(ai_client, outcome)
       IN  \E scorer \in [1..ScoredLen(request.content, ai_result) -> ScorerOutcomes] :
              Finish(ai_result, scorer)

Next ==
    \/ \E content \in Contents, model \in RunModels : AnalyzeWithoutClient(content, model)
    \/ \E content \in Contents, model \in RunModels : AnalyzeWithClient(content, model)
    \/ \E outcome \in ProviderOutcomes : ProviderReturns(outcome)

Spec == Init /\ [][Next]_vars

(* --------- specification of the functions of the fallback path -------- *)
\* One call of _generate_timeline_skeleton, _calculate_drift_score,
\* _normalize_severity or _normalize_timeline_severity on an argument drawn
\* from the sets below.

\* the longest issue list given to _generate_timeline_skeleton
MaxTimelineIssues == 6
\* the most issues of one severity in a list given to _calculate_drift_score
MaxCritical == 11
MaxHigh == 1
MaxMedium == 6
MaxLow == 2

\* the severities the rule engines emit
RuleSeverities == {s_critical, s_high, s_medium, s_low}

\* an issue as _add_oumi_scores leaves it (oumi_score NoScore: None)
ScoredIssue(severity, oumi_score) ==
    [IssueDict(Missing, severity, Missing) EXCEPT !.oumi_score = oumi_score]

Rep(x, n) == [i \in 1..n |-> x]

TimelineInputs ==
    {[i \in 1..Len(sev) |-> IssueDict(fmt03(i), sev[i], Missing)] :
        sev \in SeqsUpTo(RuleSeverities, MaxTimelineIssues)}

\* oumi_score of an issue: None, 0.0, 0.5 or 1.0
DriftScores == {NoScore, 0, 5000, One}

\* issue lists by their number of issues of each severity; the critical
\* issues share one score and the other issues another
DriftInputs ==
    {Rep(ScoredIssue(s_low, so), nl) \o Rep(ScoredIssue(s_medium, so), nm)
        \o Rep(ScoredIssue(s_critical, sc), nc) \o Rep(ScoredIssue(s_high, so), nh) :
        nc \in 0..MaxCritical, nh \in 0..MaxHigh, nm \in 0..MaxMedium, nl \in 0..MaxLow,
        sc \in DriftScores, so \in DriftScores}

s_HIGH == <<"H", "i", "g", "h">>

SeverityInputs ==
    {s_info, s_low, s_medium, s_high, s_critical, s_minor, s_major, s_severe,
     s_warning, s_warn, s_error, s_HIGH, s_CRITICAL, s_unknown, <<>>}

NoEnvironment ==
    [AI_PROVIDER |-> None, GEMINI_API_KEY |-> None, OUMI_API_KEY |-> None,
     GEMINI_MODEL |-> None, OLLAMA_MODEL |-> None]

FnInit ==
    /\ environ = NoEnvironment
    /\ OUMI_AVAILABLE = FALSE
    /\ GEMINI_AVAILABLE = FALSE
    /\ OLLAMA_AVAILABLE = FALSE
    /\ SelIdle
    /\ RunIdle
    /\ FnIdle
    /\ ProcIdle

TimelineSkeleton(issues) ==
    /\ fnPc = "idle"
    /\ fnPc' = "timeline"
    /\ fnArg' = issues
    /\ fnRes' = generate_timeline_skeleton(issues)
    /\ UNCHANGED <<envVars, selVars, runVars, procVars>>

DriftScore(issues) ==
    /\ fnPc = "idle"
    /\ fnPc' = "drift"
    /\ fnArg' = issues
    /\ fnRes' = calculate_drift_score(issues)
    /\ UNCHANGED <<envVars, selVars, runVars, procVars>>

NormalizeSeverity(severity) ==
    /\ fnPc = "idle"
    /\ fnPc' = "severity"
    /\ fnArg' = severity
    /\ fnRes' = normalize_severity(severity)
    /\ UNCHANGED <<envVars, selVars, runVars, procVars>>

NormalizeTimelineSeverity(severity) ==
    /\ fnPc = "idle"
    /\ fnPc' = "timeline_severity"
    /\ fnArg' = severity
    /\ fnRes' = normalize_timeline_severity(severity)
    /\ UNCHANGED <<envVars, selVars, runVars, procVars>>

FnNext ==
    \/ \E issues \in TimelineInputs : TimelineSkeleton(issues)
    \/ \E issues \in DriftInputs : DriftScore(issues)
    \/ \E severity \in SeverityInputs : NormalizeSeverity(severity)
    \/ \E severity \in SeverityInputs : NormalizeTimelineSeverity(severity)

SpecFn == FnInit /\ [][FnNext]_vars

(* ------------- specification of requests served together -------------- *)
\* The /analyze handler awaits analyze_content, whose only suspension point
\* is the awaited provider call: runs of different requests interleave there,
\* and a slot serves its next request once the response was sent.
RunsContents ==
    {[file_type |-> "terraform", constructs |-> <<>>],
     [file_type |-> "terraform", constructs |-> <<"hardcoded_secret">>],
     [file_type |-> "kubernetes", constructs |-> <<"null_metadata_doc">>]}

RunsOutcomes ==
    {ProviderRaises, ProviderDict(List(<<ai_issue_high>>), AbsentList, Num(5000))}

RunsInit ==
    /\ environ = NoEnvironment
    /\ OUMI_AVAILABLE = TRUE
    /\ GEMINI_AVAILABLE = TRUE
    /\ OLLAMA_AVAILABLE \in BOOLEAN
    /\ SelIdle
    /\ RunIdle
    /\ FnIdle
    /\ ProcIdle

Frame_of_suspended_run(rs, slot) == IF rs[1].pc = "awaiting" THEN rs[1] ELSE rs[slot]

\* the local variables of the analyze_content coroutine serving a slot
Frame(rs, slot) == rs[slot]

\* analyze_content from the return of _analyze_with_ai to its own return, on
\* the locals r of the run
FinishedRun(r, ai_result, scorer) ==
    LET result == finish_analysis(r.request.content, r.chosen, ai_result, scorer)
    IN  [r EXCEPT !.pc = IF result.raised THEN "raised" ELSE "done",
                  !.scorer_calls = scorer,
                  !.trace = r.trace \o RuleEngineTrace(r.request.content, ai_result),
                  !.response = IF result.raised THEN NoResponse ELSE result.value]

\* analyze_content up to the await of the provider call
StartedRun(content, model) ==
    LET selected == get_provider_and_model(model)
    IN  [IdleRun EXCEPT !.request = [content |-> content, model |-> model],
                        !.chosen = selected,
                        !.ai_client = EffectiveClient(selected.client)]

\* a request arrives and no client is left to ask: the run never suspends
StartWithoutClient(slot, content, model) ==
    /\ runs[slot].pc = "idle"
    /\ StartedRun(content, model).ai_client = NoClient
    /\ \E scorer \in [1..ScoredLen(content, AiNone) -> ScorerOutcomes] :
          /\ runs' = [runs EXCEPT ![slot] = FinishedRun(StartedRun(content, model), AiNone, scorer)]
          /\ scorer_instance' = ScorerAfter(scorer_instance, scorer)
    /\ UNCHANGED <<envVars, selVars, runVars, fnVars>>

\* a request arrives and its run suspends at the provider call
StartWithClient(slot, content, model) ==
    /\ runs[slot].pc = "idle"
    /\ StartedRun(content, model).ai_client # NoClient
    /\ runs' = [runs EXCEPT ![slot] =
                  [StartedRun(content, model) EXCEPT !.pc = "awaiting",
                                                     !.trace = <<"provider">>]]
    /\ UNCHANGED <<envVars, selVars, runVars, fnVars, scorer_instance>>

\* the provider call of a suspended run ends and the run goes to its end
ProviderReturnsTo(slot, outcome) ==
    /\ runs[slot].pc = "awaiting"
    /\ LET r == [Frame(runs, slot) EXCEPT !.ai_outcome = outcome]
           ai_result == analyze_with_ai(r.ai_client, outcome)
       IN  \E scorer \in [1..ScoredLen(r.request.content, ai_result) -> ScorerOutcomes] :
              /\ runs' = [runs EXCEPT ![slot] =
                            [FinishedRun(r, ai_result, scorer) EXCEPT
                                !.request = runs[slot].request]]
              /\ scorer_instance' = ScorerAfter(scorer_instance, scorer)
    /\ UNCHANGED <<envVars, selVars, runVars, fnVars>>

\* the response (or the error) was sent; the slot is free for its next request
Deliver(slot) ==
    /\ runs[slot].pc \in {"done", "raised"}
    /\ runs' = [runs EXCEPT ![slot] = IdleRun]
    /\ UNCHANGED <<envVars, selVars, runVars, fnVars, scorer_instance>>

RunsNext ==
    \/ \E slot \in Slots, content \in RunsContents : StartWithoutClient(slot, content, None)
    \/ \E slot \in Slots, content \in RunsContents : StartWithClient(slot, content, None)
    \/ \E slot \in Slots, outcome \in RunsOutcomes : ProviderReturnsTo(slot, outcome)
    \/ \E slot \in Slots : Deliver(slot)

SpecRuns == RunsInit /\ [][RunsNext]_vars

(* ------------------------ claims on the selector ---------------------- *)
\* C5: with no requested model, when AI_PROVIDER names gemini, oumi or local
\* and that provider's condition does not hold, the selector still returns
\* the first of gemini, oumi, local whose condition holds, and the
\* rule-engine choice only when none holds.
C5_NamedProviderStillProbes ==
    LET provider == lower(strip(getenv("AI_PROVIDER", <<>>)))
        gemini_ok == GEMINI_AVAILABLE /\ strip(getenv("GEMINI_API_KEY", <<>>)) # <<>>
        oumi_ok == OUMI_AVAILABLE /\ strip(getenv("OUMI_API_KEY", <<>>)) # <<>>
        named_ok == \/ provider = s_gemini /\ gemini_ok
                    \/ provider = s_oumi /\ oumi_ok
                    \/ provider = s_local /\ OLLAMA_AVAILABLE
        probed == IF gemini_ok THEN s_gemini
                  ELSE IF oumi_ok THEN s_oumi
                  ELSE IF OLLAMA_AVAILABLE THEN s_ollama
                  ELSE s_rule_engine
    IN  (selPc = "selected" /\ ~truthy(selRequested)
         /\ provider \in KnownProviders /\ ~named_ok)
        => selChoice.provider_name = probed

\* C6, as written: with no requested model, AI_PROVIDER is taken as it is in
\* the environment and a key counts when it is a non-empty string. If
\* AI_PROVIDER is unset or is not gemini, oumi or local, the choice is the
\* first of gemini, oumi, local whose condition holds, else the rule engine;
\* if it names a provider whose condition holds, that provider is chosen.
C6_AsWritten ==
    LET provider == environ.AI_PROVIDER
        gemini_ok == GEMINI_AVAILABLE /\ environ.GEMINI_API_KEY \notin {None, <<>>}
        oumi_ok == OUMI_AVAILABLE /\ environ.OUMI_API_KEY \notin {None, <<>>}
        probed == IF gemini_ok THEN s_gemini
                  ELSE IF oumi_ok THEN s_oumi
                  ELSE IF OLLAMA_AVAILABLE THEN s_ollama
                  ELSE s_rule_engine
    IN  (selPc = "selected" /\ ~truthy(selRequested))
        => /\ provider \notin KnownProviders => selChoice.provider_name = probed
           /\ (provider = s_gemini /\ gemini_ok) => selChoice.provider_name = s_gemini
           /\ (provider = s_oumi /\ oumi_ok) => selChoice.provider_name = s_oumi
           /\ (provider = s_local /\ OLLAMA_AVAILABLE) => selChoice.provider_name = s_ollama

\* C6, amended: the same, with AI_PROVIDER compared after trimming blanks and
\* lower-casing, and a key counting only when it is non-empty after trimming.
C6_ProbeOrder ==
    LET provider == lower(strip(getenv("AI_PROVIDER", <<>>)))
        gemini_ok == GEMINI_AVAILABLE /\ strip(getenv("GEMINI_API_KEY", <<>>)) # <<>>
        oumi_ok == OUMI_AVAILABLE /\ strip(getenv("OUMI_API_KEY", <<>>)) # <<>>
        probed == IF gemini_ok THEN s_gemini
                  ELSE IF oumi_ok THEN s_oumi
                  ELSE IF OLLAMA_AVAILABLE THEN s_ollama
                  ELSE s_rule_engine
    IN  (selPc = "selected" /\ ~truthy(selRequested))
        => /\ provider \notin KnownProviders
                => /\ selChoice.provider_name = probed
                   /\ (probed = s_rule_engine) = (selChoice = RuleEngineChoice)
           /\ (provider = s_gemini /\ gemini_ok)
                => (selChoice.provider_name = s_gemini
                    /\ isinstance(selChoice.client, "GeminiClient"))
           /\ (provider = s_oumi /\ oumi_ok)
                => (selChoice.provider_name = s_oumi
                    /\ isinstance(selChoice.client, "OumiClient"))
           /\ (provider = s_local /\ OLLAMA_AVAILABLE)
                => (selChoice.provider_name = s_ollama
                    /\ isinstance(selChoice.client, "LocalOllamaClient"))

\* C6: a padded, upper-case AI_PROVIDER names oumi, which is chosen although
\* the Gemini key is set.
C6_Witness ==
    /\ selPc = "selected" /\ selRequested = None
    /\ environ.AI_PROVIDER = s_OUMI_padded
    /\ environ.GEMINI_API_KEY = s_key /\ environ.OUMI_API_KEY = s_key
    /\ GEMINI_AVAILABLE /\ OUMI_AVAILABLE
    /\ selChoice.provider_name = s_oumi

\* C7: for a requested model that is a Gemini alias or starts with "gemini"
\* in any case, the choice is gemini exactly when the Gemini client is
\* available and GEMINI_API_KEY is set to a non-empty value; otherwise it is
\* (rule-engine, None, None), whatever else is available.
C7_GeminiOrRuleEngine ==
    (selPc = "selected" /\ truthy(selRequested) /\ is_gemini_model(lower(selRequested)))
    => IF GEMINI_AVAILABLE /\ environ.GEMINI_API_KEY \notin {None, <<>>}
       THEN selChoice.provider_name = s_gemini /\ isinstance(selChoice.client, "GeminiClient")
       ELSE selChoice = RuleEngineChoice

\* C7: Gemini-Pro is requested without a Gemini key while oumi and the local
\* provider could serve: the choice is the rule engine.
C7_Witness ==
    /\ selPc = "selected" /\ selRequested = s_Gemini_Pro
    /\ environ.GEMINI_API_KEY = None /\ environ.OUMI_API_KEY = s_key
    /\ OUMI_AVAILABLE /\ OLLAMA_AVAILABLE /\ GEMINI_AVAILABLE
    /\ selChoice = RuleEngineChoice

\* C8: for a requested model whose lower-cased name starts with llama3,
\* wizardlm2, qwen2.5 or deepseek-r1, the choice is ollama with the requested
\* string itself as model name when the local client is available, whatever
\* the environment says, and (rule-engine, None, None) when it is not.
C8_LocalFamilyExactModel ==
    (selPc = "selected" /\ truthy(selRequested) /\ is_ollama_model(lower(selRequested)))
    => IF OLLAMA_AVAILABLE
       THEN /\ selChoice.provider_name = s_ollama
            /\ selChoice.model_name = selRequested
            /\ isinstance(selChoice.client, "LocalOllamaClient")
            /\ selChoice.client.model = selRequested
       ELSE selChoice = RuleEngineChoice

\* C8: Llama3:8B is requested while AI_PROVIDER names gemini with its key and
\* OLLAMA_MODEL names another model: ollama with Llama3:8B is chosen.
C8_Witness ==
    /\ selPc = "selected" /\ selRequested = s_Llama3_8B
    /\ environ.AI_PROVIDER = s_gemini /\ environ.GEMINI_API_KEY = s_key
    /\ environ.OLLAMA_MODEL = s_qwen2_5_7b
    /\ GEMINI_AVAILABLE /\ OLLAMA_AVAILABLE
    /\ selChoice.provider_name = s_ollama /\ selChoice.model_name = s_Llama3_8B

\* C9: a selection with requested model "oumi-rl" has the provider name and
\* the model name of the selection with no requested model.
C9_OumiRlAsNoModel ==
    (selPc = "selected" /\ selRequested = s_oumi_rl)
    => /\ selChoice.provider_name = get_provider_and_model(None).provider_name
       /\ selChoice.model_name = get_provider_and_model(None).model_name

(* ---------------------- claims on analyze_content --------------------- *)
\* C1: whatever the awaited provider call does without delivering issues
\* (it raises, returns None, or returns a dict with no usable issue),
\* analyze_content does not raise: it ends with a response.
C1_ProviderFailureAbsorbed ==
    LET ai_result == analyze_with_ai(ai_client, ai_outcome)
    IN  (pc \in {"done", "raised"} /\ ai_client # NoClient
         /\ (ai_result.isNone \/ Len(ai_result.issues) = 0))
        => pc = "done"

\* C2: when the provider the selector chose raises or delivers no issue, the
\* response names provider "rule-engine" with no model, and its drift score
\* is the one computed from the issues in the response.
C2_FallbackNamesRuleEngine ==
    LET ai_result == analyze_with_ai(ai_client, ai_outcome)
    IN  (pc = "done" /\ chosen.client # NoClient
         /\ (ai_result.isNone \/ Len(ai_result.issues) = 0))
        => /\ response.provider = s_rule_engine
           /\ response.model = None
           /\ response.drift_score = calculate_drift_score(response.issues)

\* C3: when the selector returned (rule-engine, None, None), no client's
\* analyze_infrastructure is awaited and the issues of the response are the
\* rule engine's.
C3_RuleEngineChoiceDisablesAi ==
    LET raw_issues == run_rule_engine(request.content).value
    IN  (pc # "idle" /\ chosen = RuleEngineChoice)
        => /\ ai_client = NoClient
           /\ pc = "done"
                => /\ Len(response.issues) = Len(raw_issues)
                   /\ \A i \in 1..Len(raw_issues) :
                         response.issues[i].id = raw_issues[i].rule_id

\* C4: when the provider that was asked delivers at least one issue, the
\* response names that provider, carries its issues and its timeline, and
\* its drift score is the provider's normalised score.
C4_AiResultTakesPrecedence ==
    LET ai_result == analyze_with_ai(ai_client, ai_outcome)
        asked == IF isinstance(ai_client, "GeminiClient") THEN s_gemini
                 ELSE IF isinstance(ai_client, "OumiClient") THEN s_oumi
                 ELSE s_ollama
    IN  (pc = "done" /\ ai_client # NoClient
         /\ ~ai_result.isNone /\ Len(ai_result.issues) > 0)
        => /\ response.provider = asked
           /\ Len(response.issues) = Len(ai_result.issues)
           /\ \A i \in 1..Len(ai_result.issues) :
                 response.issues[i].severity
                     = normalize_severity(SeverityOf(ai_result.issues[i]))
           /\ response.timeline = timeline_events(ai_result.timeline)
           /\ response.drift_score = ai_result.drift_score
(* ------------------- claims on the scores and the lists --------------- *)
\* the run adopted the AI result: the provider answered with at least one issue
AiAdopted ==
    /\ pc = "done"
    /\ ai_outcome.kind = "dict"
    /\ ai_outcome.issues.kind = "list"
    /\ Len(ai_outcome.issues.items) > 0

\* C11: when the AI path is adopted, the response's drift_score is 0 for a raw
\* score that is missing or not a number, min(s/100, 1) for s > 1 and
\* max(0, s) otherwise. The code answers 1.0 to a raw score of NaN.
C11_DriftIsNormalizedRawScore ==
    AiAdopted =>
        LET s == ai_outcome.drift_score
        IN  response.drift_score =
                IF s.kind # "num" THEN 0
                ELSE IF s.v > One THEN Min(s.v \div 100, One)
                ELSE Max(0, s.v)

\* The same statement for every raw score but NaN.
C11_HoldsForNumbers ==
    (AiAdopted /\ ai_outcome.drift_score.kind # "nan") =>
        LET s == ai_outcome.drift_score
        IN  response.drift_score =
                IF s.kind # "num" THEN 0
                ELSE IF s.v > One THEN Min(s.v \div 100, One)
                ELSE Max(0, s.v)

\* C12: every response of analyze_content, from the AI path or from the
\* fallback path, has 0 <= drift_score <= 1.
C12_DriftScoreInUnitInterval ==
    pc = "done" => (0 <= response.drift_score /\ response.drift_score <= One)

\* a provider's score of -5 was adopted and answered as 0
C12_Witness ==
    /\ AiAdopted
    /\ ai_outcome.drift_score = Num(-50000)
    /\ response.drift_score = 0

\* C13: in every response the timeline is empty only when the issue list is
\* empty. The code hands on an adopted AI result's timeline as it is, so an
\* AI result with issues and no timeline is answered with an empty timeline.
C13_TimelineEmptyOnlyWithoutIssues ==
    pc = "done" => (response.timeline = <<>> => response.issues = <<>>)

\* The same statement for the responses of the fallback path.
C13_HoldsOnFallback ==
    (pc = "done" /\ ~AiAdopted) => response.timeline # <<>>

\* C14: an AI result with at least one issue is never rejected for its
\* malformed records: analyze_content defaults or coerces the fields and
\* returns a response. The code raises for an issue that is no dict, for a
\* severity that is no str and for a day that is negative or no integer.
C14_MalformedRecordsNeverRejected ==
    (/\ pc \in {"done", "raised"}
     /\ ai_outcome.kind = "dict"
     /\ ai_outcome.issues.kind = "list"
     /\ Len(ai_outcome.issues.items) > 0) => pc = "done"

\* the issue list of the producer the run adopted: the AI result's issues when
\* it has any, the formatted issues of the rule engine otherwise
AdoptedIssues ==
    IF /\ ai_outcome.kind = "dict"
       /\ ai_outcome.issues.kind = "list"
       /\ Len(ai_outcome.issues.items) > 0
    THEN ai_outcome.issues.items
    ELSE format_rule_engine_issues(run_rule_engine(request.content).value)

\* the severity-table score of the claim, by the issue's severity field
TableScore(issue) ==
    LET severity == IF IsStr(issue.severity) THEN lower(issue.severity) ELSE <<>>
    IN  IF severity = s_low THEN 2500
        ELSE IF severity = s_high THEN 7500
        ELSE IF severity = s_critical THEN 9500
        ELSE 5000

ScorerFailed == \E i \in 1..Len(scorer_calls) : scorer_calls[i] = ScorerRaises

\* the scores of the response are the scorer's, and the table's where it failed
ScoresAsClaimed ==
    /\ Len(response.issues) = Len(scorer_calls)
    /\ \A i \in 1..Len(scorer_calls) :
          response.issues[i].oumi_score =
              IF scorer_calls[i] = ScorerRaises THEN TableScore(AdoptedIssues[i])
              ELSE scorer_calls[i]

\* C15: when a scorer call fails for an issue, that issue alone gets the
\* severity-table score, every other issue keeps the score of its own call,
\* and the run completes with a response. The code raises when the failing
\* call is on an issue whose severity is null.
C15_ScorerFailureIsAbsorbed ==
    (pc \in {"done", "raised"} /\ ScorerFailed) => (pc = "done" /\ ScoresAsClaimed)

\* The scores are as claimed in every run that completes.
C15_ScoresWhenCompleted ==
    pc = "done" => ScoresAsClaimed

\* A scorer failure on the rule engine's issues never ends the run.
C15_HoldsOnFallback ==
    (pc = "raised" /\ ScorerFailed) => ai_outcome.kind = "dict"

\* C16: scoring and assembly never reorder, drop or duplicate issues: the
\* response's issue list has the length and the order of the adopted
\* producer's list (the i-th response issue is the producer's i-th issue).
C16_IssuesKeepLengthAndOrder ==
    pc = "done" =>
        /\ Len(response.issues) = Len(AdoptedIssues)
        /\ \A i \in 1..Len(AdoptedIssues) :
              /\ ~falsy(AdoptedIssues[i].id) => response.issues[i].id = AdoptedIssues[i].id
              /\ falsy(AdoptedIssues[i].id) =>
                    response.issues[i].id = <<"i", "s", "s", "u", "e", "-">> \o fmt03(i)
              /\ response.issues[i].severity = normalize_severity(SeverityOf(AdoptedIssues[i]))

\* the rule engine emitted a lower severity before a higher one, and the
\* response has both in that order
C16_Witness ==
    /\ pc = "done"
    /\ ~AiAdopted
    /\ Len(response.issues) = 2
    /\ severity_order(response.issues[1].severity) < severity_order(response.issues[2].severity)

(* ---------------- claims on the fallback's functions ------------------ *)
\* the day increment the claim gives to a severity
IncrementOf(severity) ==
    IF severity = s_critical THEN 2
    ELSE IF severity = s_high THEN 5
    ELSE IF severity = s_medium THEN 10
    ELSE 15

RECURSIVE SumOfIncrements(_, _)
\* the sum of the increments of the first k issues
SumOfIncrements(issues, k) ==
    IF k = 0 THEN 0
    ELSE SumOfIncrements(issues, k - 1) + IncrementOf(issues[k].severity)

\* C17: for a non-empty issue list the synthesized timeline starts with an
\* event at day 0, its days are strictly increasing, and the k-th issue event
\* is at the sum of the increments (critical 2, high 5, medium 10, low 15) of
\* the first k issues in the sorted order.
C17_SkeletonDaysAccumulate ==
    (fnPc = "timeline" /\ fnArg # <<>>) =>
        /\ Len(fnRes) >= 2
        /\ fnRes[1].day = Num(0)
        /\ \A k \in 1..(Len(fnRes) - 1) :
              /\ fnRes[k].day.v < fnRes[k + 1].day.v
              /\ fnRes[k + 1].day = Num(SumOfIncrements(sorted_issues(fnArg), k))

\* six issues given from low to critical: the first issue event is the
\* critical one at day 2 and the fifth is at day 2 + 5 + 10 + 15 + 15
C17_Witness ==
    /\ fnPc = "timeline"
    /\ Len(fnArg) = MaxTimelineIssues
    /\ fnArg[1].severity = s_low
    /\ fnArg[2].severity = s_low
    /\ fnArg[3].severity = s_low
    /\ fnArg[4].severity = s_medium
    /\ fnArg[5].severity = s_high
    /\ fnArg[6].severity = s_critical
    /\ fnRes[2].day = Num(2)
    /\ fnRes[6].day = Num(47)

\* the number of issues of the argument with the given severity
NumberOf(severity) == Cardinality({i \in 1..Len(fnArg) : fnArg[i].severity = severity})

\* C18: with more than 3 critical issues (c of them) the fallback drift score
\* is exactly 0.9 + 0.01 * min(c - 3, 7), between 0.91 and 1.0, whatever the
\* other issues and the scorer's outputs are.
C18_ManyCriticalFixesDrift ==
    (fnPc = "drift" /\ NumberOf(s_critical) > 3) =>
        /\ fnRes = 9000 + 100 * Min(NumberOf(s_critical) - 3, 7)
        /\ 9100 <= fnRes
        /\ fnRes <= One

\* eleven critical issues scored 0.0 among other issues: the score is 0.97
C18_Witness ==
    /\ fnPc = "drift"
    /\ NumberOf(s_critical) = MaxCritical
    /\ NumberOf(s_medium) = MaxMedium
    /\ \A i \in 1..Len(fnArg) : fnArg[i].oumi_score = 0
    /\ fnRes = 9700

\* C19: with at least 5 medium issues and no critical and no high issue the
\* fallback drift score lies in [0.4, 0.6], whatever the scorer's outputs are
\* and however many low issues there are.
C19_ManyMediumClampsDrift ==
    (/\ fnPc = "drift"
     /\ NumberOf(s_medium) >= 5
     /\ NumberOf(s_critical) = 0
     /\ NumberOf(s_high) = 0) => (4000 <= fnRes /\ fnRes <= 6000)

\* five medium and two low issues, every one scored 0.0: the score is 0.4
C19_Witness ==
    /\ fnPc = "drift"
    /\ NumberOf(s_medium) = 5
    /\ NumberOf(s_low) = MaxLow
    /\ Len(fnArg) = 5 + MaxLow
    /\ \A i \in 1..Len(fnArg) : fnArg[i].oumi_score = 0
    /\ fnRes = 4000

\* six medium and two low issues, every one scored 1.0: the score is 0.6
C19_UpperEndReached ==
    /\ fnPc = "drift"
    /\ NumberOf(s_medium) = MaxMedium
    /\ Len(fnArg) = MaxMedium + MaxLow
    /\ \A i \in 1..Len(fnArg) : fnArg[i].oumi_score = One
    /\ fnRes = 6000

\* C20: both severity normalizers are idempotent and return the canonical
\* values of their enum unchanged; for timeline events "warning" becomes
\* "medium" and "critical" becomes "high".
C20_NormalizersIdempotent ==
    /\ fnPc = "severity" =>
          /\ normalize_severity(fnRes) = fnRes
          /\ fnArg \in {s_low, s_medium, s_high, s_critical} => fnRes = fnArg
    /\ fnPc = "timeline_severity" =>
          /\ normalize_timeline_severity(fnRes) = fnRes
          /\ fnArg \in {s_info, s_low, s_medium, s_high} => fnRes = fnArg
          /\ fnArg = s_warning => fnRes = s_medium
          /\ fnArg = s_critical => fnRes = s_high

\* an issue severity outside the enum and its variations was normalized
C20_Witness ==
    /\ fnPc = "severity"
    /\ fnArg = s_unknown
    /\ fnRes = s_medium

\* "warning" was normalized for a timeline event
C20_TimelineWarningReached ==
    /\ fnPc = "timeline_severity"
    /\ fnArg = s_warning
    /\ fnRes = s_medium

(* ------------------ claims on the run as a whole ---------------------- *)
\* the run went to the rule engine: the AI attempt gave no issue
RuleEngineRan ==
    /\ pc \in {"done", "raised"}
    /\ ~(/\ ai_outcome.kind = "dict"
         /\ ai_outcome.issues.kind = "list"
         /\ Len(ai_outcome.issues.items) > 0)

\* C21: the rule engine never raises: for every content and file type it
\* returns a list of issues. The code raises on a Kubernetes document whose
\* metadata is null.
C21_RuleEngineNeverRaises ==
    RuleEngineRan => ~run_rule_engine(request.content).raised

\* The same statement for Terraform content.
C21_HoldsForTerraform ==
    (RuleEngineRan /\ request.content.file_type = "terraform") => pc = "done"

AloneAiResult(r) ==
    analyze_with_ai(EffectiveClient(get_provider_and_model(r.request.model).client),
                    r.ai_outcome)

\* what analyze_content then returns, with the scorer outcomes r had
AloneResult(r) ==
    finish_analysis(r.request.content, get_provider_and_model(r.request.model),
                    AloneAiResult(r), r.scorer_calls)

C24_IssueIdsUnique ==
    pc = "done" =>
        \A i, j \in 1..Len(response.issues) :
            i # j => response.issues[i].id # response.issues[j].id

\* The ids the assembly makes up for issues without one are unique.
C24_HoldsForDefaultedIds ==
    (pc = "done" /\ \A i \in 1..Len(AdoptedIssues) : falsy(AdoptedIssues[i].id)) =>
        \A i, j \in 1..Len(response.issues) :
            i # j => response.issues[i].id # response.issues[j].id

\* critical > high > medium > low
RankOf(severity) ==
    CASE severity = s_critical -> 4
      [] severity = s_high -> 3
      [] severity = s_medium -> 2
      [] severity = s_low -> 1

\* the place of issues[i] when the issues are put in descending severity and
\* equal severities keep their original order
PlaceOf(issues, i) ==
    Cardinality({j \in 1..Len(issues) : RankOf(issues[j].severity) > RankOf(issues[i].severity)})
    + Cardinality({j \in 1..i : RankOf(issues[j].severity) = RankOf(issues[i].severity)})

\* C25: for n > 0 issues the skeleton has 1 + min(n, 5) events; the k-th event
\* after day 0 belongs to the issue at place k of the descending, stable
\* severity order (the issue the event text names), and carries that issue's
\* severity with critical shown as high.
C25_SkeletonShowsTopFive ==
    (fnPc = "timeline" /\ fnArg # <<>>) =>
        /\ Len(fnRes) = 1 + Min(Len(fnArg), 5)
        /\ \A i \in 1..Len(fnArg) :
              PlaceOf(fnArg, i) <= 5 =>
                  /\ sorted_issues(fnArg)[PlaceOf(fnArg, i)] = fnArg[i]
                  /\ fnRes[PlaceOf(fnArg, i) + 1].severity =
                        IF fnArg[i].severity = s_critical THEN s_high ELSE fnArg[i].severity

\* six issues, so one is left out; two critical issues behind a low one, and
\* two high issues whose order shows in the event texts
C25_Witness ==
    /\ fnPc = "timeline"
    /\ Len(fnArg) = 6
    /\ Len(fnRes) = 6
    /\ fnArg[1].severity = s_low
    /\ fnArg[2].severity = s_high
    /\ fnArg[3].severity = s_critical
    /\ fnArg[4].severity = s_high
    /\ fnRes[2].severity = s_high
    /\ fnRes[6].severity # s_low

\* the producer's severity of an issue: its severity, or its final_severity
\* when it has no severity
ProducerSeverity(issue) ==
    IF falsy(issue.severity) THEN issue.final_severity ELSE issue.severity

\* the issue severity of the claim for a producer's string
IssueSeverityOf(string) ==
    CASE lower(string) \in {s_low, s_medium, s_high, s_critical} -> lower(string)
      [] lower(string) \in {s_info, s_minor} -> s_low
      [] lower(string) \in {s_major, s_severe} -> s_high
      [] OTHER -> s_medium

\* the timeline severity of the claim for a producer's string
TimelineSeverityOf(string) ==
    CASE lower(string) \in {s_info, s_low, s_medium, s_high} -> lower(string)
      [] lower(string) \in {s_warning, s_warn} -> s_medium
      [] lower(string) \in {s_critical, s_error} -> s_high
      [] OTHER -> s_info

\* C26: every issue of a response has a severity in {low, medium, high,
\* critical}, the one the claim's table gives for the producer's string; every
\* timeline event has a severity in {info, low, medium, high}, and an event the
\* AI provider gave with a severity string has the one the table gives for it.
C26_SeveritiesAreCanonical ==
    pc = "done" =>
        /\ Len(response.issues) = Len(AdoptedIssues)
        /\ \A i \in 1..Len(response.issues) :
              /\ response.issues[i].severity \in {s_low, s_medium, s_high, s_critical}
              /\ IsStr(ProducerSeverity(AdoptedIssues[i])) =>
                    response.issues[i].severity = IssueSeverityOf(ProducerSeverity(AdoptedIssues[i]))
        /\ \A i \in 1..Len(response.timeline) :
              /\ response.timeline[i].severity \in {s_info, s_low, s_medium, s_high}
              /\ (AiAdopted /\ IsStr(ai_outcome.timeline.items[i].severity)) =>
                    response.timeline[i].severity =
                        TimelineSeverityOf(ai_outcome.timeline.items[i].severity)

\* an AI answer with the severities minor and unknown is adopted
C26_Witness ==
    /\ AiAdopted
    /\ Len(response.issues) = 2
    /\ ai_outcome.issues.items[1].severity = s_minor
    /\ response.issues[1].severity = s_low
    /\ response.issues[2].severity = s_medium

\* an AI timeline with the severities error and unknown is adopted
C26_TimelineWitness ==
    /\ AiAdopted
    /\ Len(response.timeline) = 2
    /\ ai_outcome.timeline.items[1].severity = s_error
    /\ response.timeline[1].severity = s_high
    /\ response.timeline[2].severity = s_info

\* C27: whatever model is requested in whatever environment, the selector's
\* provider_name is gemini, oumi, ollama or rule-engine, and the client is
\* absent exactly when provider_name is rule-engine, exactly when model_name
\* is null.
C27_ChoiceIsWellFormed ==
    selPc = "selected" =>
        /\ selChoice.provider_name \in {s_gemini, s_oumi, s_ollama, s_rule_engine}
        /\ selChoice.client = NoClient <=> selChoice.provider_name = s_rule_engine
        /\ selChoice.provider_name = s_rule_engine <=> selChoice.model_name = None

\* an unknown model is requested and the default client is the oumi client
C27_Witness ==
    /\ selPc = "selected" /\ selRequested = s_gpt_4
    /\ selChoice.provider_name = s_oumi
    /\ selChoice.client # NoClient
    /\ selChoice.model_name # None

\* no client can be built: the rule engine, without client and model name
C27_RuleEngineReached ==
    /\ selPc = "selected" /\ selRequested = s_gpt_4
    /\ selChoice.provider_name = s_rule_engine
    /\ selChoice.client = NoClient
    /\ selChoice.model_name = None

RECURSIVE SumOfScores(_)
SumOfScores(issues) ==
    IF issues = <<>> THEN 0 ELSE Head(issues).oumi_score + SumOfScores(Tail(issues))

\* the drift score of issues whose weights are their scores alone
DriftOfScores(issues) ==
    LET number(severity) == Cardinality({i \in 1..Len(issues) : issues[i].severity = severity})
        curved == Pow07[(Min(SumOfScores(issues) \div 10, One) \div 50) + 1]
    IN  IF issues = <<>> THEN 0
        ELSE IF number(s_critical) > 3
        THEN Min(9000 + Min(number(s_critical) - 3, 7) * 100, One)
        ELSE IF number(s_medium) >= 5 /\ number(s_critical) = 0 /\ number(s_high) = 0
        THEN Round2(Max(4000, Min(6000, curved)))
        ELSE Round2(curved)

\* C28: every issue of every response has a score in [0, 1], and the drift
\* score of a fallback response is the one computed from the sum of these
\* scores: the severity weight table is never used.
C28_EveryIssueIsScored ==
    pc = "done" =>
        /\ \A i \in 1..Len(response.issues) :
              response.issues[i].oumi_score \in 0..One
        /\ ~AiAdopted =>
              response.drift_score = DriftOfScores(response.issues)

\* a fallback response with two issues, one scored by the scorer and one by
\* the handler of its failure
C28_Witness ==
    /\ pc = "done" /\ ~AiAdopted
    /\ Len(response.issues) = 2
    /\ scorer_calls = <<500, ScorerRaises>>
    /\ response.issues[1].oumi_score = 500
    /\ response.issues[2].oumi_score \in 1..One

\* the order of the claim on the calls of one run: at most one rule engine
\* call, none when the AI attempt gave an issue, and no provider call after it
OrderedCalls ==
    /\ Cardinality({i \in 1..Len(trace) : trace[i] = "rules"}) <= 1
    /\ \A i, j \in 1..Len(trace) : (trace[i] = "rules" /\ trace[j] = "provider") => j < i
    /\ (\E i \in 1..Len(trace) : trace[i] = "rules") =>
          LET ai_result == analyze_with_ai(ai_client, ai_outcome)
          IN  ai_result.isNone \/ Len(ai_result.issues) = 0

\* C29: within one run the rule engine is executed at most once, only after
\* the AI attempt ended without an issue, and the provider is not called after
\* it. The code runs the rule engine a second time, in its exception handler,
\* when the first execution raised.
C29_RuleEngineAtMostOnce ==
    pc \in {"done", "raised"} => OrderedCalls

\* The order holds in every run that ends with a response.
C29_HoldsWhenAnswered ==
    pc = "done" => OrderedCalls

C30_HoldsAwayFromTheRules ==
    (/\ fnPc = "drift"
     /\ NumberOf(s_critical) # 3
     /\ ~(NumberOf(s_medium) >= 5 /\ NumberOf(s_critical) = 0 /\ NumberOf(s_high) = 0)) =>
        \A oumi_score \in DriftScores :
            calculate_drift_score(fnArg \o <<ScoredIssue(s_critical, oumi_score)>>) >= fnRes

====
